---- MODULE Spec2Model ----
(***************************************************************************)
(* Model of the rural-healthcare-bot backend: the retrieval module         *)
(* (backend/rag.py: load_guidelines, split_into_chunks, retrieve_context)  *)
(* and the urgency extraction of the generation service                    *)
(* (backend/services/llm_service.py: initialize_groq, generate_answer),    *)
(* and the request handler with its query log                              *)
(* (backend/routes/diagnosis.py: diagnose; backend/models.py).             *)
(*                                                                         *)
(* Python str values are TLA+ strings, handled character by character with *)
(* Len, SubSeq and \o.  Python None is the record None for object handles  *)
(* and the string "None" for the optional urgency string.                  *)
(***************************************************************************)
EXTENDS Integers, Sequences, FiniteSets, TLC

VARIABLES
    \* ---- rag.py module globals (lines 23-25, 14-17)
    embedder,           \* None or the loaded SentenceTransformer
    faiss_index,        \* None or the IndexFlatL2
    guideline_chunks,   \* list of chunk strings
    PdfReader,          \* "PyPDF2" or "None" (import failed), fixed at import
    \* ---- the load_guidelines call in progress
    pc,                 \* position of the loader inside load_guidelines
    call,               \* environment of the call: corpus, model, injected fault
    all_text,           \* local all_text
    embeddings,         \* local embeddings
    chunks_gen,         \* history: number of the load call that wrote guideline_chunks
    loads,              \* history: number of load_guidelines calls started
    pre,                \* history: the globals when the call in progress started
    done,               \* history: the completed calls, most recent last (at most two kept)
    \* ---- the retrieve_context call that returned since the loader last moved
    last,
    \* ---- split_into_chunks as a pure function
    ch_texts, ch_size, ch_out,
    \* ---- llm_service.py
    client,             \* None or the Groq client
    api_key,            \* environment variable GROQ_API_KEY ("" when unset)
    gen,                \* the last generate_answer call
    \* ---- routes/diagnosis.py, models.py
    patient_queries,    \* the rows of table patient_queries, in insertion order
    requests,           \* history: number of diagnose requests served
    diag                \* the last diagnose request: inputs, generation, response

ragVars   == <<embedder, faiss_index, guideline_chunks, PdfReader, pc, call,
               all_text, embeddings, chunks_gen, loads, pre, done, last>>
chunkVars == <<ch_texts, ch_size, ch_out>>
llmVars   == <<client, api_key, gen>>
dbVars    == <<patient_queries, requests, diag>>
vars      == <<ragVars, chunkVars, llmVars, dbVars>>

None == [tag |-> "None"]

Min(a, b) == IF a <= b THEN a ELSE b

-----------------------------------------------------------------------------
(* Python str helpers *)

Whitespace == {" ", "\t", "\n"}

CharAt(s, i) == SubSeq(s, i, i)

\* str.strip(): drop leading and trailing whitespace
RECURSIVE LStrip(_)
LStrip(s) ==
    IF Len(s) > 0 /\ CharAt(s, 1) \in Whitespace THEN LStrip(SubSeq(s, 2, Len(s))) ELSE s

RECURSIVE RStrip(_)
RStrip(s) ==
    IF Len(s) > 0 /\ CharAt(s, Len(s)) \in Whitespace
    THEN RStrip(SubSeq(s, 1, Len(s) - 1)) ELSE s

Strip(s) == LStrip(RStrip(s))

\* str.split() without arguments: the maximal runs of non-whitespace characters,
\* left to right
WordStarts(s) ==
    {i \in 1..Len(s) : /\ CharAt(s, i) \notin Whitespace
                       /\ (i = 1 \/ CharAt(s, i - 1) \in Whitespace)}

WordEnd(s, i) ==
    CHOOSE j \in i..Len(s) :
        /\ \A m \in i..j : CharAt(s, m) \notin Whitespace
        /\ (j = Len(s) \/ CharAt(s, j + 1) \in Whitespace)

Split(s) ==
    LET starts == WordStarts(s)
        nth(n) == CHOOSE i \in starts : Cardinality({j \in starts : j < i}) = n - 1
    IN  [n \in 1..Cardinality(starts) |-> SubSeq(s, nth(n), WordEnd(s, nth(n)))]

\* sep.join(list)
RECURSIVE Join(_, _)
Join(sep, xs) ==
    IF Len(xs) = 0 THEN ""
    ELSE IF Len(xs) = 1 THEN xs[1]
    ELSE LET h == Len(xs) \div 2
         IN  Join(sep, SubSeq(xs, 1, h)) \o sep \o Join(sep, SubSeq(xs, h + 1, Len(xs)))

\* list[i:j] for 0 <= i <= j
Slice(xs, i, j) == SubSeq(xs, i + 1, Min(j, Len(xs)))

-----------------------------------------------------------------------------
(* rag.py split_into_chunks *)

CHUNK_SIZE == 200

\* mutant: a final window shorter than chunk_size is dropped
RECURSIVE Windows_DropShort(_, _, _, _)
Windows_DropShort(words, i, chunk_size, chunks) ==
    IF i + chunk_size > Len(words) THEN chunks
    ELSE Windows_DropShort(words, i + chunk_size, chunk_size,
                           Append(chunks, Join(" ", Slice(words, i, i + chunk_size))))

\* the inner loop: for i in range(0, len(words), chunk_size)
RECURSIVE Windows(_, _, _, _)
Windows(words, i, chunk_size, chunks) ==
    IF i >= Len(words) THEN chunks
    ELSE LET chunk == Join(" ", Slice(words, i, i + chunk_size))
         IN  Windows(words, i + chunk_size, chunk_size,
                     IF Strip(chunk) # "" THEN Append(chunks, chunk) ELSE chunks)

\* the outer loop: for text in texts
RECURSIVE ChunkTexts(_, _, _)
ChunkTexts(texts, chunk_size, chunks) ==
    IF Len(texts) = 0 THEN chunks
    ELSE ChunkTexts(Tail(texts), chunk_size,
                    Windows(Split(Head(texts)), 0, chunk_size, chunks))

split_into_chunks(texts, chunk_size) == ChunkTexts(texts, chunk_size, <<>>)

-----------------------------------------------------------------------------
(* The guidelines folder as load_guidelines finds it.  A corpus is          *)
(* [exists, pdfs]; a pdf is [pages, failAfter]: the texts page.extract_text *)
(* returns, and the number of pages read before PdfReader or extract_text   *)
(* raises (-1: the document reads without error).                           *)

Pdf(pages, failAfter) == [pages |-> pages, failAfter |-> failAfter]

CorpusIds == {"missing", "empty", "blank", "A", "B"}

Corpus(id) ==
    CASE id = "missing" -> [exists |-> FALSE, pdfs |-> <<>>]
      [] id = "empty"   -> [exists |-> TRUE,  pdfs |-> <<>>]
      [] id = "blank"   -> [exists |-> TRUE,  pdfs |-> <<Pdf(<<"  ", "\n">>, -1)>>]
      [] id = "A"       -> [exists |-> TRUE,
                            pdfs |-> <<Pdf(<<"fever headache", " cough\nfatigue ", "">>, -1)>>]
      [] id = "B"       -> [exists |-> TRUE,
                            pdfs |-> <<Pdf(<<"rash itch", "swelling">>, 1),
                                       Pdf(<<"burn">>, -1),
                                       Pdf(<<"sprain">>, 0)>>]

-----------------------------------------------------------------------------
(* sentence_transformers and faiss, as far as rag.py uses them *)

MODEL_NAME == "all-MiniLM-L6-v2"

\* embedding dimensions the model files found under MODEL_NAME may have
Dims == {2, 3}

\* SentenceTransformer(MODEL_NAME), created by load call n
SentenceTransformer(name, dim, n) ==
    [tag |-> "SentenceTransformer", name |-> name, dim |-> dim, gen |-> n]

\* one coordinate of the embedding of a text: a fixed function of the text
Coord(text, i) == IF i = 1 THEN Len(text) ELSE Len(Split(text)) * i

\* embedder.encode(texts): one vector of the model's dimension per text, in order
Encode(model, texts) ==
    [j \in 1..Len(texts) |-> [i \in 1..model.dim |-> Coord(texts[j], i)]]

\* faiss.IndexFlatL2(d), created by load call n: no vectors yet
IndexFlatL2(d, n) == [tag |-> "IndexFlatL2", d |-> d, xb |-> <<>>, gen |-> n]

\* mutant: the last vector of the batch is not stored
IndexAdd_DropsLast(index, vectors) ==
    [index EXCEPT !.xb = index.xb \o SubSeq(vectors, 1, Len(vectors) - 1)]

\* index.add(vectors)
IndexAdd(index, vectors) == [index EXCEPT !.xb = index.xb \o vectors]

ntotal(index) == Len(index.xb)

RECURSIVE SumSq(_, _, _)
SumSq(a, b, i) == IF i = 0 THEN 0 ELSE (a[i] - b[i]) * (a[i] - b[i]) + SumSq(a, b, i - 1)

L2(a, b) == SumSq(a, b, Len(a))

\* the 0-based labels of the stored vectors, nearest first, ties by lower label
RECURSIVE Ranked(_, _, _, _)
Ranked(index, q, rest, acc) ==
    IF rest = {} THEN acc
    ELSE LET best == CHOOSE i \in rest : \A j \in rest :
                        \/ L2(index.xb[i + 1], q) < L2(index.xb[j + 1], q)
                        \/ L2(index.xb[i + 1], q) = L2(index.xb[j + 1], q) /\ i <= j
         IN  Ranked(index, q, rest \ {best}, Append(acc, best))

\* index.search(q, k) of the faiss python wrapper: asserts d == self.d and k > 0,
\* returns k labels, -1 where the index holds fewer than k vectors
\* mutant: k = 0 passes the assertion
SearchRaises_AllowsZeroK(index, q, k) == Len(q) # index.d \/ k < 0

SearchRaises(index, q, k) == Len(q) # index.d \/ k <= 0

\* mutant: the labels are returned farthest first
Search_FarthestFirst(index, q, k) ==
    LET order == Ranked(index, q, 0..(ntotal(index) - 1), <<>>)
    IN  [r \in 1..k |-> IF r <= Len(order) THEN order[Len(order) + 1 - r] ELSE -1]

Search(index, q, k) ==
    LET order == Ranked(index, q, 0..(ntotal(index) - 1), <<>>)
    IN  [r \in 1..k |-> IF r <= Len(order) THEN order[r] ELSE -1]

-----------------------------------------------------------------------------
(* rag.py load_guidelines, one action per step that reads or writes a global *)

SENTINEL == "No clinical guidelines available. Please add PDF files to the guidelines folder."
NO_TEXT  == "No valid text extracted from guidelines."
FB_QUERY == "No guidelines available"

Faults == {"none", "model", "encode", "add"}

NoCall == [corpus |-> "", dim |-> 0, fault |-> "none"]

Globals == [embedder |-> embedder, faiss_index |-> faiss_index,
            guideline_chunks |-> guideline_chunks]

\* the three fallback blocks: where each encodes, builds its index, sets the chunk table
Fallbacks ==
    { [path |-> "missing_dir", enc |-> "l48", idx |-> "l49", chk |-> "l50", msg |-> SENTINEL],
      [path |-> "no_pdfs",     enc |-> "l59", idx |-> "l60", chk |-> "l61", msg |-> SENTINEL],
      [path |-> "no_chunks",   enc |-> "l88", idx |-> "l89", chk |-> "l90", msg |-> NO_TEXT] }

\* the history keeps the last two completed calls
Remember(h, e) == IF Len(h) < 2 THEN Append(h, e) ELSE <<h[2], e>>

\* leaving load_guidelines: by return ret, or by an exception reaching the caller
Leave(ret, path, raised) ==
    /\ pc' = "idle"
    /\ done' = Remember(done, [corpus |-> call.corpus, ret |-> ret, path |-> path,
                              raised |-> raised])
    /\ call' = NoCall
    /\ all_text' = <<>>
    /\ embeddings' = <<>>

Return(ret, path) == Leave(ret, path, FALSE)

\* mutant: the exception is logged and raised again
ExceptClause_Reraise == Leave(FALSE, "exception", TRUE)

\* lines 108-110: except Exception: log, return False
ExceptClause == Return(FALSE, "exception")

\* the pages of one document that reach all_text (lines 67-81)
RECURSIVE ReadPages(_, _, _, _)
ReadPages(pages, p, upto, acc) ==
    IF p > upto THEN acc
    ELSE ReadPages(pages, p + 1, upto,
                   IF Strip(pages[p]) # "" THEN Append(acc, pages[p]) ELSE acc)

ReadPdf(pdf, acc) ==
    IF PdfReader = "None" THEN acc
    ELSE ReadPages(pdf.pages, 1,
                   IF pdf.failAfter < 0 THEN Len(pdf.pages) ELSE pdf.failAfter, acc)

RECURSIVE ReadAll(_, _)
ReadAll(pdfs, acc) ==
    IF Len(pdfs) = 0 THEN acc ELSE ReadAll(Tail(pdfs), ReadPdf(Head(pdfs), acc))

\* number of load_guidelines calls a behaviour makes
MaxLoads == 2

otherVars    == <<chunkVars, llmVars, dbVars, PdfReader>>

\* no retrieve_context call has returned since the loader last moved
NoRetrieve == [called |-> FALSE]

\* load_guidelines() is called; the folder, the model files and the fault are the
\* environment's
LoadCall(c, d, f) ==
    /\ pc = "idle"
    /\ loads < MaxLoads
    /\ loads' = loads + 1
    /\ call' = [corpus |-> c, dim |-> d, fault |-> f]
    /\ pre' = Globals
    /\ pc' = "l40"
    /\ UNCHANGED <<embedder, faiss_index, guideline_chunks, chunks_gen, all_text,
                   embeddings, done, otherVars>>
    /\ last' = NoRetrieve

\* mutant: a model that fails to load clears the embedder
LoadModel_ClearsEmbedder ==
    /\ pc = "l40"
    /\ IF call.fault = "model"
       THEN /\ ExceptClause
            /\ embedder' = None
       ELSE /\ embedder' = SentenceTransformer(MODEL_NAME, call.dim, loads)
            /\ pc' = IF Corpus(call.corpus).exists THEN "l55" ELSE "l48"
            /\ UNCHANGED <<call, all_text, embeddings, done>>
    /\ UNCHANGED <<faiss_index, guideline_chunks, chunks_gen, loads, pre,
                   otherVars>>
    /\ last' = NoRetrieve

\* lines 40-45: embedder = SentenceTransformer(MODEL_NAME); does the folder exist
LoadModel ==
    /\ pc = "l40"
    /\ IF call.fault = "model"
       THEN /\ ExceptClause
            /\ UNCHANGED embedder
       ELSE /\ embedder' = SentenceTransformer(MODEL_NAME, call.dim, loads)
            /\ pc' = IF Corpus(call.corpus).exists THEN "l55" ELSE "l48"
            /\ UNCHANGED <<call, all_text, embeddings, done>>
    /\ UNCHANGED <<faiss_index, guideline_chunks, chunks_gen, loads, pre,
                   otherVars>>
    /\ last' = NoRetrieve

\* lines 54-81: list the pdf files and extract the text of their pages
ReadPdfs ==
    /\ pc = "l55"
    /\ IF Len(Corpus(call.corpus).pdfs) = 0
       THEN /\ pc' = "l59"
            /\ UNCHANGED all_text
       ELSE /\ all_text' = ReadAll(Corpus(call.corpus).pdfs, <<>>)
            /\ pc' = "l84"
    /\ UNCHANGED <<embedder, faiss_index, guideline_chunks, chunks_gen, loads, pre,
                   call, embeddings, done, otherVars>>
    /\ last' = NoRetrieve

\* mutant: the new chunks are appended to the chunk table of the previous load
SplitText_Extend ==
    /\ pc = "l84"
    /\ guideline_chunks' = guideline_chunks \o split_into_chunks(all_text, CHUNK_SIZE)
    /\ chunks_gen' = loads
    /\ pc' = IF Len(guideline_chunks') = 0 THEN "l88" ELSE "l97"
    /\ UNCHANGED <<embedder, faiss_index, loads, pre, call, all_text, embeddings,
                   done, otherVars>>
    /\ last' = NoRetrieve

\* lines 84-86: guideline_chunks = split_into_chunks(all_text, chunk_size=200)
SplitText ==
    /\ pc = "l84"
    /\ guideline_chunks' = split_into_chunks(all_text, CHUNK_SIZE)
    /\ chunks_gen' = loads
    /\ pc' = IF Len(guideline_chunks') = 0 THEN "l88" ELSE "l97"
    /\ UNCHANGED <<embedder, faiss_index, loads, pre, call, all_text, embeddings,
                   done, otherVars>>
    /\ last' = NoRetrieve

\* lines 97-98: embeddings = embedder.encode(guideline_chunks)
EmbedChunks ==
    /\ pc = "l97"
    /\ IF call.fault = "encode"
       THEN ExceptClause
       ELSE /\ embeddings' = Encode(embedder, guideline_chunks)
            /\ pc' = "l102"
            /\ UNCHANGED <<call, all_text, done>>
    /\ UNCHANGED <<embedder, faiss_index, guideline_chunks, chunks_gen, loads, pre,
                   otherVars>>
    /\ last' = NoRetrieve

\* lines 101-102: faiss_index = faiss.IndexFlatL2(dimension)
NewIndex ==
    /\ pc = "l102"
    /\ faiss_index' = IndexFlatL2(Len(embeddings[1]), loads)
    /\ pc' = "l103"
    /\ UNCHANGED <<embedder, guideline_chunks, chunks_gen, loads, pre, call, all_text,
                   embeddings, done, otherVars>>
    /\ last' = NoRetrieve

\* lines 103-106: faiss_index.add(embeddings); return True
AddVectors ==
    /\ pc = "l103"
    /\ IF call.fault = "add"
       THEN /\ ExceptClause
            /\ UNCHANGED faiss_index
       ELSE /\ faiss_index' = IndexAdd(faiss_index, embeddings)
            /\ Return(TRUE, "ready")
    /\ UNCHANGED <<embedder, guideline_chunks, chunks_gen, loads, pre,
                   otherVars>>
    /\ last' = NoRetrieve

\* lines 48, 59, 88: embeddings = embedder.encode(["No guidelines available"])
FallbackEncode ==
    /\ \E f \in Fallbacks :
         /\ pc = f.enc
         /\ IF call.fault = "encode"
            THEN ExceptClause
            ELSE /\ embeddings' = Encode(embedder, <<FB_QUERY>>)
                 /\ pc' = f.idx
                 /\ UNCHANGED <<call, all_text, done>>
    /\ UNCHANGED <<embedder, faiss_index, guideline_chunks, chunks_gen, loads, pre,
                   otherVars>>
    /\ last' = NoRetrieve

\* lines 49, 60, 89: faiss_index = faiss.IndexFlatL2(embeddings.shape[1])
FallbackIndex ==
    /\ \E f \in Fallbacks :
         /\ pc = f.idx
         /\ pc' = f.chk
    /\ faiss_index' = IndexFlatL2(Len(embeddings[1]), loads)
    /\ UNCHANGED <<embedder, guideline_chunks, chunks_gen, loads, pre, call, all_text,
                   embeddings, done, otherVars>>
    /\ last' = NoRetrieve

\* lines 50-51, 61-62, 90-91: guideline_chunks = [message]; return False
FallbackChunks ==
    /\ \E f \in Fallbacks :
         /\ pc = f.chk
         /\ guideline_chunks' = <<f.msg>>
         /\ Return(FALSE, f.path)
    /\ chunks_gen' = loads
    /\ UNCHANGED <<embedder, faiss_index, loads, pre, otherVars>>
    /\ last' = NoRetrieve

-----------------------------------------------------------------------------
(* rag.py retrieve_context *)

NO_GUIDELINES  == "No clinical guidelines available."
RETRIEVE_ERROR == "Error retrieving clinical guidelines."

DEFAULT_K == 3

Queries == {"fever", "burn rash"}
Ks      == {0, 1, DEFAULT_K}

\* list[idx] raises IndexError outside -len .. len-1
IndexRaises(xs, idx) == idx >= Len(xs) \/ idx < -Len(xs)
PyIndex(xs, idx) == IF idx >= 0 THEN xs[idx + 1] ELSE xs[Len(xs) + idx + 1]

\* mutant: a negative label is skipped as well
RECURSIVE Gather_SkipNegative(_, _, _, _)
Gather_SkipNegative(G, indices, r, acc) ==
    IF r > Len(indices) THEN acc
    ELSE Gather_SkipNegative(G, indices, r + 1,
                             IF indices[r] >= 0 /\ indices[r] < Len(G)
                             THEN Append(acc, PyIndex(G, indices[r])) ELSE acc)

\* lines 166-169: for idx in indices[0]: if idx < len(guideline_chunks): append
RECURSIVE Gather(_, _, _, _)
Gather(G, indices, r, acc) ==
    IF r > Len(indices) THEN acc
    ELSE Gather(G, indices, r + 1,
                IF indices[r] < Len(G) THEN Append(acc, PyIndex(G, indices[r])) ELSE acc)

GatherRaises(G, indices) ==
    \E r \in 1..Len(indices) : indices[r] < Len(G) /\ IndexRaises(G, indices[r])

\* lines 158-174, the body of the try: [exc, context, retrieved_chunks, indices]
TryBody(E, F, G, query, k, fault) ==
    LET failed == [exc |-> TRUE, context |-> "", retrieved_chunks |-> <<>>, indices |-> <<>>]
        q  == Encode(E, <<query>>)[1]
        kk == Min(k, Len(G))
    IN  IF fault = "encode" THEN failed
        ELSE IF SearchRaises(F, q, kk) THEN failed
        ELSE LET indices == Search(F, q, kk)
             IN  IF GatherRaises(G, indices) THEN failed
                 ELSE LET retrieved_chunks == Gather(G, indices, 1, <<>>)
                      IN  [exc |-> FALSE, context |-> Join("\n\n", retrieved_chunks),
                           retrieved_chunks |-> retrieved_chunks, indices |-> indices]

\* mutant: the exception leaves retrieve_context
RetrieveExcept_Reraise(body) ==
    [raised |-> TRUE, result |-> "", branch |-> "except",
     retrieved_chunks |-> <<>>, indices |-> <<>>]

\* lines 176-178: except Exception: log, return the fixed string
RetrieveExcept(body) ==
    [raised |-> FALSE, result |-> RETRIEVE_ERROR, branch |-> "except",
     retrieved_chunks |-> <<>>, indices |-> <<>>]

\* retrieve_context(query, k) on the globals E, F, G
retrieve_context(E, F, G, query, k, fault) ==
    IF E = None \/ F = None
    THEN [raised |-> FALSE, result |-> NO_GUIDELINES, branch |-> "unloaded",
          retrieved_chunks |-> <<>>, indices |-> <<>>]
    ELSE IF Len(G) = 0
    THEN [raised |-> FALSE, result |-> NO_GUIDELINES, branch |-> "empty",
          retrieved_chunks |-> <<>>, indices |-> <<>>]
    ELSE LET body == TryBody(E, F, G, query, k, fault)
         IN  IF body.exc THEN RetrieveExcept(body)
             ELSE [raised |-> FALSE, result |-> body.context, branch |-> "search",
                   retrieved_chunks |-> body.retrieved_chunks, indices |-> body.indices]

RFaults == {"none", "encode"}

\* a request calls retrieve_context(query, k), at any point of a load in progress;
\* the call reads the globals and writes none, so one call per loader position
\* stands for any number of them
Retrieve(query, k, fault) ==
    /\ last = NoRetrieve
    /\ last' = [called |-> TRUE, query |-> query, k |-> k, fault |-> fault,
                out |-> retrieve_context(embedder, faiss_index, guideline_chunks,
                                         query, k, fault),
                during |-> pc,
                saw |-> Globals,
                saw_chunks_gen |-> chunks_gen,
                old |-> pre]
    /\ UNCHANGED <<embedder, faiss_index, guideline_chunks, pc, call, all_text,
                   embeddings, chunks_gen, loads, pre, done, otherVars>>

-----------------------------------------------------------------------------
(* llm_service.py *)

UNAVAILABLE == "Unable to generate response: Groq service not available"
GEN_ERROR   == "Error generating health guidance: "

LowerCase == "abcdefghijklmnopqrstuvwxyz"
UpperCase == "ABCDEFGHIJKLMNOPQRSTUVWXYZ"

UpperChar(c) ==
    IF \E i \in 1..Len(LowerCase) : CharAt(LowerCase, i) = c
    THEN CharAt(UpperCase, CHOOSE i \in 1..Len(LowerCase) : CharAt(LowerCase, i) = c)
    ELSE c

\* str.upper()
RECURSIVE Upper(_)
Upper(s) == IF s = "" THEN "" ELSE UpperChar(CharAt(s, 1)) \o Upper(SubSeq(s, 2, Len(s)))

\* pat in s
Contains(s, pat) ==
    \E i \in 1..(Len(s) - Len(pat) + 1) : SubSeq(s, i, i + Len(pat) - 1) = pat

\* mutant: the tokens are looked for in the order LOW, MEDIUM, HIGH
ExtractUrgency_LowFirst(response_text) ==
    IF Contains(Upper(response_text), "LOW") THEN "LOW"
    ELSE IF Contains(Upper(response_text), "MEDIUM") THEN "MEDIUM"
    ELSE IF Contains(Upper(response_text), "HIGH") THEN "HIGH"
    ELSE "None"

\* lines 100-107: the referral urgency read off the response text
ExtractUrgency(response_text) ==
    IF Contains(Upper(response_text), "HIGH") THEN "HIGH"
    ELSE IF Contains(Upper(response_text), "MEDIUM") THEN "MEDIUM"
    ELSE IF Contains(Upper(response_text), "LOW") THEN "LOW"
    ELSE "None"

\* initialize_groq() with the client c: [ok, client]
initialize_groq(c, key, groq_fails) ==
    IF key = "" THEN [ok |-> FALSE, client |-> c]
    ELSE IF groq_fails THEN [ok |-> FALSE, client |-> c]
    ELSE [ok |-> TRUE, client |-> [tag |-> "Groq", api_key |-> key]]

\* what the completion call does: raise, answer without content, or answer text
Oracle(texts) ==
    {[kind |-> "raise", text |-> ""], [kind |-> "null", text |-> ""]}
        \cup {[kind |-> "text", text |-> t] : t \in texts}

\* lines 61-115 of generate_answer: the try block and its except clause
Generate(o) ==
    IF o.kind = "text"
    THEN [answer |-> o.text, referral_urgency |-> ExtractUrgency(o.text), how |-> "generated"]
    ELSE [answer |-> GEN_ERROR, referral_urgency |-> "None", how |-> "raised"]

\* generate_answer(symptoms, context) with the client c: [client, answer, urgency]
generate_answer(c, key, groq_fails, o) ==
    LET init == IF c = None THEN initialize_groq(c, key, groq_fails)
                ELSE [ok |-> TRUE, client |-> c]
    IN  IF ~init.ok
        THEN [client |-> init.client, oracle |-> o,
              ret |-> [answer |-> UNAVAILABLE, referral_urgency |-> "None",
                       how |-> "unavailable"]]
        ELSE [client |-> init.client, oracle |-> o, ret |-> Generate(o)]

\* the fragments the modelled answer texts are concatenated from
Fragments == {"high", "HIGH", "Medium", "mediu", "m", "low", "LOW", "hig", "h",
              "follow up", " ", "rest"}

MaxFrags == 2

RECURSIVE Texts(_)
Texts(n) ==
    IF n = 0 THEN {""}
    ELSE Texts(n - 1) \cup {t \o f : t \in Texts(n - 1), f \in Fragments}

AnswerTexts == Texts(MaxFrags)

NoGen == [called |-> FALSE]

\* startup (main.py) calls initialize_groq()
InitializeGroq(groq_fails) ==
    /\ client' = initialize_groq(client, api_key, groq_fails).client
    /\ UNCHANGED <<api_key, gen, ragVars, chunkVars, dbVars>>

\* a request calls generate_answer
GenerateAnswer(groq_fails, o) ==
    LET r == generate_answer(client, api_key, groq_fails, o)
    IN  /\ gen = NoGen
        /\ client' = r.client
        /\ gen' = [called |-> TRUE, client |-> r.client, oracle |-> r.oracle, ret |-> r.ret]
        /\ UNCHANGED <<api_key, ragVars, chunkVars, dbVars>>

-----------------------------------------------------------------------------
(* split_into_chunks applied to drawn inputs *)

Alphabet == {"a", "b", " "}

RECURSIVE Strs(_)
Strs(n) ==
    IF n = 0 THEN {""}
    ELSE Strs(n - 1) \cup {t \o c : t \in Strs(n - 1), c \in Alphabet}

MaxTextLen == 5
MaxTailLen == 2
MaxWindow  == 3

ChunkInputs ==
    {<<>>} \cup {<<t>> : t \in Strs(MaxTextLen)}
           \cup {<<t, u>> : t \in Strs(MaxTextLen), u \in Strs(MaxTailLen)}

NoChunking == [called |-> FALSE]

\* split_into_chunks(ch_texts, ch_size) is called and returns
SplitCall ==
    /\ ch_out = NoChunking
    /\ ch_out' = [called |-> TRUE, chunks |-> split_into_chunks(ch_texts, ch_size)]
    /\ UNCHANGED <<ch_texts, ch_size, ragVars, llmVars, dbVars>>

-----------------------------------------------------------------------------
(* routes/diagnosis.py diagnose, with the table of models.py *)

DIAG_ERROR == "An error occurred while processing your request: "

\* PatientQuery(symptoms=..., response=...): the object before it is inserted
PatientQuery(symptoms, response) == [symptoms |-> symptoms, response |-> response]

\* mutant: a row with the same symptoms is updated in place instead of a new insert
Commit_Upsert(table, obj) ==
    IF \E i \in 1..Len(table) : table[i].symptoms = obj.symptoms
    THEN [i \in 1..Len(table) |->
             IF table[i].symptoms = obj.symptoms
             THEN [table[i] EXCEPT !.response = obj.response] ELSE table[i]]
    ELSE Append(table, [id |-> Len(table) + 1, symptoms |-> obj.symptoms,
                        response |-> obj.response])

\* db.add(obj); db.commit(): one INSERT, the integer primary key is the next id
\* (created_at is filled by the column default and plays no part here)
Commit(table, obj) ==
    Append(table, [id |-> Len(table) + 1, symptoms |-> obj.symptoms,
                   response |-> obj.response])

\* where the session may raise: nowhere, in db.commit(), in db.refresh()
DbFaults == {"none", "commit", "refresh"}

\* the except clause of lines 76-83
DiagnoseExcept == [answer |-> DIAG_ERROR, referral_urgency |-> "None"]

\* diagnose(query, db) on the globals and the table:
\* [client, table, context, gen, response]
diagnose(E, F, G, c, key, table, symptoms, rfault, groq_fails, o, dbfault) ==
    LET context == retrieve_context(E, F, G, symptoms, DEFAULT_K, rfault)
        g       == generate_answer(c, key, groq_fails, o)
        db_query == PatientQuery(symptoms, g.ret.answer)
    IN  IF context.raised
        THEN [client |-> c, table |-> table, context |-> context,
              gen |-> [answer |-> "", referral_urgency |-> "None", how |-> "not called"],
              response |-> DiagnoseExcept]
        ELSE IF dbfault = "commit"
        THEN [client |-> g.client, table |-> table, context |-> context,
              gen |-> g.ret, response |-> DiagnoseExcept]
        ELSE IF dbfault = "refresh"
        THEN [client |-> g.client, table |-> Commit(table, db_query), context |-> context,
              gen |-> g.ret, response |-> DiagnoseExcept]
        ELSE [client |-> g.client, table |-> Commit(table, db_query), context |-> context,
              gen |-> g.ret,
              response |-> [answer |-> g.ret.answer,
                            referral_urgency |-> g.ret.referral_urgency]]

\* number of diagnose requests a behaviour serves
MaxRequests == 2

\* symptom texts of the requests (QueryRequest: 1 to 500 characters)
Symptoms == {"fever", "burn rash"}

\* the texts the completion call answers a request with
DiagAnswers == {"rest", "HIGH fever, refer"}

NoDiag == [called |-> FALSE]

\* POST /api/diagnose: the handler is a coroutine without an await, it runs from
\* its first line to its return before another request is served
Diagnose(symptoms, rfault, groq_fails, o, dbfault) ==
    LET r == diagnose(embedder, faiss_index, guideline_chunks, client, api_key,
                      patient_queries, symptoms, rfault, groq_fails, o, dbfault)
    IN  /\ requests < MaxRequests
        /\ requests' = requests + 1
        /\ client' = r.client
        /\ patient_queries' = r.table
        /\ diag' = [called |-> TRUE, symptoms |-> symptoms, context |-> r.context.result,
                    gen |-> r.gen, dbfault |-> dbfault, response |-> r.response]
        /\ UNCHANGED <<api_key, gen, ragVars, chunkVars>>

-----------------------------------------------------------------------------
(* Specifications *)

InitRag ==
    /\ embedder = None
    /\ faiss_index = None
    /\ guideline_chunks = <<>>
    /\ pc = "idle"
    /\ call = NoCall
    /\ all_text = <<>>
    /\ embeddings = <<>>
    /\ chunks_gen = 0
    /\ loads = 0
    /\ pre = [embedder |-> None, faiss_index |-> None, guideline_chunks |-> <<>>]
    /\ done = <<>>
    /\ last = NoRetrieve

InitChunk ==
    /\ ch_texts = <<>>
    /\ ch_size = 1
    /\ ch_out = NoChunking

InitLlm ==
    /\ client = None
    /\ gen = NoGen

InitDb ==
    /\ patient_queries = <<>>
    /\ requests = 0
    /\ diag = NoDiag

\* the retrieval module: loads in steps, requests in between
Init ==
    /\ InitRag
    /\ PdfReader \in {"PyPDF2", "None"}
    /\ InitChunk
    /\ InitLlm
    /\ InitDb
    /\ api_key = ""

Next ==
    \/ \E c \in CorpusIds, d \in Dims, f \in Faults : LoadCall(c, d, f)
    \/ LoadModel
    \/ ReadPdfs
    \/ SplitText
    \/ EmbedChunks
    \/ NewIndex
    \/ AddVectors
    \/ FallbackEncode
    \/ FallbackIndex
    \/ FallbackChunks
    \/ \E q \in Queries, k \in Ks, f \in RFaults : Retrieve(q, k, f)

Spec == Init /\ [][Next]_vars

\* the chunker alone
InitC ==
    /\ InitRag
    /\ PdfReader = "PyPDF2"
    /\ ch_texts \in ChunkInputs
    /\ ch_size \in 1..MaxWindow
    /\ ch_out = NoChunking
    /\ InitLlm
    /\ InitDb
    /\ api_key = ""

NextC == SplitCall

SpecChunk == InitC /\ [][NextC]_vars

\* the generation service alone
InitL ==
    /\ InitRag
    /\ PdfReader = "PyPDF2"
    /\ InitChunk
    /\ InitLlm
    /\ InitDb
    /\ api_key \in {"", "gsk_key"}

NextL ==
    \/ \E g \in BOOLEAN : InitializeGroq(g)
    \/ \E g \in BOOLEAN, o \in Oracle(AnswerTexts) : GenerateAnswer(g, o)

SpecLLM == InitL /\ [][NextL]_vars

\* the globals the first load_guidelines call leaves when it returns True
\* (lines 40, 84, 97-103) on corpus c with a model of dimension d
Ready(c, d) ==
    LET E == SentenceTransformer(MODEL_NAME, d, 1)
        G == split_into_chunks(ReadAll(Corpus(c).pdfs, <<>>), CHUNK_SIZE)
        v == Encode(E, G)
    IN  [embedder |-> E, faiss_index |-> IndexAdd(IndexFlatL2(Len(v[1]), 1), v),
         guideline_chunks |-> G]

\* the request handler: startup has loaded the guidelines (corpus "A") or has failed
\* to (the model did not load); requests follow
InitD ==
    /\ PdfReader = "PyPDF2"
    /\ \/ InitRag
       \/ /\ embedder = Ready("A", 2).embedder
          /\ faiss_index = Ready("A", 2).faiss_index
          /\ guideline_chunks = Ready("A", 2).guideline_chunks
          /\ pc = "idle"
          /\ call = NoCall
          /\ all_text = <<>>
          /\ embeddings = <<>>
          /\ chunks_gen = 1
          /\ loads = 1
          /\ pre = [embedder |-> None, faiss_index |-> None, guideline_chunks |-> <<>>]
          /\ done = <<[corpus |-> "A", ret |-> TRUE, path |-> "ready", raised |-> FALSE]>>
          /\ last = NoRetrieve
    /\ InitChunk
    /\ InitLlm
    /\ InitDb
    /\ api_key \in {"", "gsk_key"}

NextD ==
    \/ \E g \in BOOLEAN : InitializeGroq(g)
    \/ \E s \in Symptoms, rf \in RFaults, g \in BOOLEAN, o \in Oracle(DiagAnswers),
          df \in DbFaults : Diagnose(s, rf, g, o, df)

SpecDiag == InitD /\ [][NextD]_vars

-----------------------------------------------------------------------------
(* Properties *)

LastDone == done[Len(done)]
Returned == pc = "idle" /\ Len(done) >= 1

FallbackPaths == {f.path : f \in Fallbacks}

StartsWith(s, p) == Len(s) >= Len(p) /\ SubSeq(s, 1, Len(p)) = p

Range(xs) == {xs[i] : i \in 1..Len(xs)}

\* the chunk texts a corpus yields
CorpusChunks(id) == Range(split_into_chunks(ReadAll(Corpus(id).pdfs, <<>>), CHUNK_SIZE))

\* the call ran while a load was re-loading a state that held an index of vectors
DuringReload(l) ==
    /\ l.during # "idle"
    /\ l.old.faiss_index # None
    /\ ntotal(l.old.faiss_index) >= 1

\* C1: during a re-load, a retrieve_context call that searches never pairs the
\* chunk table written by one load with the vector index built by another.
C1_ReaderSeesOneLoad ==
    (last.called /\ DuringReload(last) /\ last.out.branch = "search")
        => last.saw.faiss_index.gen = last.saw_chunks_gen

\* C2: a load_guidelines call that starts from a published READY state and ends in an
\* exception leaves guideline_chunks, faiss_index and the embedder's model as they
\* were when it started.
C2_FailedLoadKeepsState ==
    (Returned /\ LastDone.path = "exception" /\ pre.faiss_index # None
              /\ ntotal(pre.faiss_index) >= 1)
        => /\ guideline_chunks = pre.guideline_chunks
           /\ faiss_index = pre.faiss_index
           /\ embedder.name = pre.embedder.name

\* C3 as claimed: in the state a load leaves behind on its READY path or on a
\* fallback path, the index holds one vector per chunk, vector i being the
\* embedding of chunk i.
C3_IndexAlignedWithChunks ==
    (Returned /\ LastDone.path \in FallbackPaths \cup {"ready"})
        => /\ ntotal(faiss_index) = Len(guideline_chunks)
           /\ faiss_index.xb = Encode(embedder, guideline_chunks)

\* C3 as amended: the state left on the READY path holds one vector per chunk,
\* vector i being the embedding of chunk i; the state left on a fallback path
\* holds the single sentinel chunk and an index of the embedder's dimension
\* with no vector in it.
C3_ReadyAlignedFallbackEmpty ==
    /\ (Returned /\ LastDone.path = "ready")
          => /\ ntotal(faiss_index) = Len(guideline_chunks)
             /\ ntotal(faiss_index) >= 1
             /\ faiss_index.xb = Encode(embedder, guideline_chunks)
    /\ (Returned /\ LastDone.path \in FallbackPaths)
          => /\ Len(guideline_chunks) = 1
             /\ guideline_chunks[1] \in {SENTINEL, NO_TEXT}
             /\ ntotal(faiss_index) = 0
             /\ faiss_index.d = embedder.dim

C3_Witness ==
    /\ Returned /\ Len(done) = 2
    /\ done[1].path = "ready"
    /\ done[2].path = "missing_dir"
    /\ ntotal(faiss_index) = 0
    /\ guideline_chunks = <<SENTINEL>>

\* C4 as claimed: after a load that took a fallback path, the load has returned
\* False and a retrieve_context call (k >= 1, no fault) returns, without raising,
\* a message beginning "No clinical guidelines available", whichever fallback
\* path it was.
C4_FallbackMessage ==
    (Returned /\ LastDone.path \in FallbackPaths)
        => /\ LastDone.ret = FALSE
           /\ (last.called /\ last.k >= 1 /\ last.fault = "none")
                 => /\ ~last.out.raised
                    /\ StartsWith(last.out.result, "No clinical guidelines available")

\* C4 as amended: after a load that took a fallback path, the load has returned
\* False and a retrieve_context call (k >= 1, no fault) returns, without raising,
\* the sentinel chunk of that path: the message beginning "No clinical guidelines
\* available" after a missing folder or a folder without PDF files, and "No valid
\* text extracted from guidelines." after zero chunks.
C4_FallbackMessagePerPath ==
    (Returned /\ LastDone.path \in FallbackPaths)
        => /\ LastDone.ret = FALSE
           /\ StartsWith(SENTINEL, "No clinical guidelines available")
           /\ (last.called /\ last.k >= 1 /\ last.fault = "none")
                 => /\ ~last.out.raised
                    /\ last.out.result =
                          (IF LastDone.path = "no_chunks" THEN NO_TEXT ELSE SENTINEL)

C4_Witness ==
    /\ Returned /\ LastDone.path = "no_chunks" /\ LastDone.ret = FALSE
    /\ last.called /\ last.k = DEFAULT_K /\ last.fault = "none"
    /\ last.out.result = NO_TEXT

\* C5: when the last two load_guidelines calls both returned True, on different
\* corpora, a retrieve_context result is made of chunks of the later corpus only,
\* and of no chunk of the earlier one.
C5_OnlyLatestCorpus ==
    (/\ last.called /\ pc = "idle" /\ Len(done) = 2
     /\ done[1].ret /\ done[2].ret /\ done[1].corpus # done[2].corpus)
        => /\ last.out.branch = "search" =>
                /\ Range(last.out.retrieved_chunks) \subseteq CorpusChunks(done[2].corpus)
                /\ Range(last.out.retrieved_chunks) \cap CorpusChunks(done[1].corpus) = {}
                /\ last.out.result = Join("\n\n", last.out.retrieved_chunks)
           /\ last.out.branch # "search" => last.out.retrieved_chunks = <<>>

C5_Witness ==
    /\ last.called /\ pc = "idle" /\ Len(done) = 2
    /\ done[1].ret /\ done[2].ret /\ done[1].corpus # done[2].corpus
    /\ last.out.branch = "search"
    /\ Len(last.out.retrieved_chunks) >= 2

ReachedTry(l) ==
    /\ l.saw.embedder # None /\ l.saw.faiss_index # None
    /\ Len(l.saw.guideline_chunks) > 0

DimensionMismatch(l) == l.saw.embedder.dim # l.saw.faiss_index.d
InvalidK(l) == Min(l.k, Len(l.saw.guideline_chunks)) <= 0

\* C7: retrieve_context never raises; it returns "No clinical guidelines
\* available." when the embedder or the index is absent or the chunk table is
\* empty, and "Error retrieving clinical guidelines." when embedding the query or
\* searching the index throws.
C7_RetrieveNeverRaises ==
    last.called =>
        /\ ~last.out.raised
        /\ ~ReachedTry(last) => last.out.result = NO_GUIDELINES
        /\ (ReachedTry(last) /\ (last.fault = "encode" \/ DimensionMismatch(last)
                                 \/ InvalidK(last)))
              => last.out.result = RETRIEVE_ERROR

C7_Witness ==
    /\ last.called /\ ReachedTry(last) /\ last.fault = "encode"
    /\ last.out.result = RETRIEVE_ERROR

\* C8 as claimed: a dimension mismatch between the query vector and the index, or
\* an invalid k, leaves retrieve_context as an exception raised to the caller.
C8_MismatchRaises ==
    (/\ last.called /\ ReachedTry(last) /\ last.fault = "none"
     /\ (DimensionMismatch(last) \/ InvalidK(last)))
        => last.out.raised

\* C8 as amended: a dimension mismatch between the query vector and the index, or
\* an invalid k, is caught inside retrieve_context, which returns
\* "Error retrieving clinical guidelines." and raises nothing.
C8_MismatchCaught ==
    (/\ last.called /\ ReachedTry(last) /\ last.fault = "none"
     /\ (DimensionMismatch(last) \/ InvalidK(last)))
        => /\ ~last.out.raised
           /\ last.out.result = RETRIEVE_ERROR
           /\ last.out.retrieved_chunks = <<>>

C8_Witness ==
    /\ last.called /\ ReachedTry(last) /\ last.fault = "none"
    /\ DimensionMismatch(last) /\ ~InvalidK(last)
    /\ last.out.result = RETRIEVE_ERROR

Ceil(n, w) == (n + w - 1) \div w

RECURSIVE WordsOf(_)
WordsOf(chunks) == IF Len(chunks) = 0 THEN <<>> ELSE Split(Head(chunks)) \o WordsOf(Tail(chunks))

\* the chunks, text by text: each text of n words takes the next ceil(n/w) chunks
RECURSIVE Covers(_, _, _)
Covers(chunks, texts, w) ==
    IF Len(texts) = 0 THEN Len(chunks) = 0
    ELSE LET n == Len(Split(Head(texts)))
             c == Ceil(n, w)
         IN  /\ Len(chunks) >= c
             /\ WordsOf(SubSeq(chunks, 1, c)) = Split(Head(texts))
             /\ Covers(SubSeq(chunks, c + 1, Len(chunks)), Tail(texts), w)

HoldsToken(text, upper, lower) ==
    \E i \in 1..(Len(text) - Len(upper) + 1) :
        \A j \in 1..Len(upper) :
            CharAt(text, i + j - 1) \in {CharAt(upper, j), CharAt(lower, j)}

\* C10: the urgency of a generated answer is HIGH if the text holds "HIGH" in any
\* case, else MEDIUM if it holds "MEDIUM", else LOW if it holds "LOW", else absent;
\* it is absent whenever the service is unavailable or the generation throws.
C10_Urgency ==
    gen.called =>
        LET t == gen.oracle.text
            u == gen.ret.referral_urgency
        IN  IF gen.client # None /\ gen.oracle.kind = "text"
            THEN /\ gen.ret.answer = t
                 /\ u = (IF HoldsToken(t, "HIGH", "high") THEN "HIGH"
                         ELSE IF HoldsToken(t, "MEDIUM", "medium") THEN "MEDIUM"
                         ELSE IF HoldsToken(t, "LOW", "low") THEN "LOW"
                         ELSE "None")
            ELSE u = "None"

C10_Witness ==
    /\ gen.called /\ gen.client # None /\ gen.oracle.kind = "text"
    /\ HoldsToken(gen.oracle.text, "LOW", "low")
    /\ HoldsToken(gen.oracle.text, "MEDIUM", "medium")
    /\ ~HoldsToken(gen.oracle.text, "MEDIUM", "MEDIUM")
    /\ gen.ret.referral_urgency = "MEDIUM"

\* the pages that reach the chunker when a document whose extraction throws is
\* skipped entirely
RECURSIVE ReadWhole(_, _)
ReadWhole(pdfs, acc) ==
    IF Len(pdfs) = 0 THEN acc
    ELSE ReadWhole(Tail(pdfs), IF Head(pdfs).failAfter < 0
                               THEN ReadPdf(Head(pdfs), acc) ELSE acc)

\* C11: when the pages have been read, the text handed to the chunker holds the
\* pages of the documents whose extraction did not throw, in enumeration order, and
\* no page of a document whose extraction threw.
C11_FailedDocumentSkipped ==
    pc = "l84" => all_text = ReadWhole(Corpus(call.corpus).pdfs, <<>>)

\* a diagnose request is served by the step
DiagnoseStep == requests' = requests + 1

\* the row a request inserts: its symptom text and the answer generate_answer returned
RowOf(table, d) == [id |-> Len(table) + 1, symptoms |-> d.symptoms,
                    response |-> d.gen.answer]

\* every row the table held is still there, unchanged and in place
KeepsRows == /\ Len(patient_queries') >= Len(patient_queries)
             /\ SubSeq(patient_queries', 1, Len(patient_queries)) = patient_queries

\* C12 as stated: the query log is append-only, and each diagnose request whose
\* generation succeeded appends exactly one record holding its symptom text and
\* generated answer before it returns.
C12_GeneratedIsLogged ==
    [][/\ KeepsRows
       /\ (DiagnoseStep /\ diag'.gen.how = "generated")
             => patient_queries' = Append(patient_queries, RowOf(patient_queries, diag'))
      ]_vars

\* C12 amended: the query log is append-only; a diagnose request whose db.commit()
\* does not raise appends exactly one record holding its symptom text and the answer
\* text generate_answer returned (the generated answer, or the error text when
\* generation failed), and the response it then returns carries that answer unless
\* db.refresh() raised; a request whose commit raises appends nothing and returns
\* the error response; no other step writes the log.
C12_AppendOnlyLog ==
    [][/\ KeepsRows
       /\ DiagnoseStep =>
             /\ diag'.dbfault # "commit"
                   => patient_queries' = Append(patient_queries,
                                                RowOf(patient_queries, diag'))
             /\ diag'.dbfault = "commit"
                   => /\ patient_queries' = patient_queries
                      /\ diag'.response = DiagnoseExcept
             /\ diag'.dbfault = "none"
                   => diag'.response.answer = patient_queries'[Len(patient_queries')].response
       /\ ~DiagnoseStep => patient_queries' = patient_queries
      ]_vars

\* two requests with the same symptom text have been logged, the later one with a
\* generated answer, the earlier one with the error text of a failed generation
C12_Witness ==
    /\ diag.called
    /\ diag.gen.how = "generated"
    /\ diag.dbfault = "none"
    /\ Len(patient_queries) = 2
    /\ patient_queries[2] = [id |-> 2, symptoms |-> diag.symptoms,
                             response |-> diag.response.answer]
    /\ patient_queries[1].symptoms = diag.symptoms
    /\ patient_queries[1].response = UNAVAILABLE
    /\ diag.context # NO_GUIDELINES

\* both handles of the Retrieval State are present: the state is not UNLOADED
Loaded == embedder # None /\ faiss_index # None

\* the last load_guidelines call returned on the READY path or on a fallback path
Populated == Returned /\ LastDone.path \in ({"ready"} \cup FallbackPaths)

\* C13: a load_guidelines call that returns on the READY path or a fallback path
\* leaves embedder and faiss_index present, and from a state where both are present
\* no step of a load (failing ones included) or of retrieve_context makes either
\* absent, and no retrieve_context call takes the "Guidelines not loaded" branch.
C13_NeverUnloadedAgain ==
    [][/\ Populated' => Loaded'
       /\ Loaded => /\ Loaded'
                    /\ last'.called => last'.out.branch # "unloaded"
      ]_vars

\* a load on top of a populated state has ended in an exception, and a request
\* served afterwards searched
C13_Witness ==
    /\ Returned
    /\ Len(done) = 2
    /\ done[1].path \in ({"ready"} \cup FallbackPaths)
    /\ done[2].path = "exception"
    /\ Loaded
    /\ last.called
    /\ last.out.branch = "search"

\* the state the last load_guidelines call published by returning True
Ready_State == Returned /\ LastDone.path = "ready"

\* the texts one after the other with a blank line between two of them
RECURSIVE BlankLineJoined(_)
BlankLineJoined(xs) ==
    IF Len(xs) = 0 THEN ""
    ELSE IF Len(xs) = 1 THEN xs[1]
    ELSE xs[1] \o "\n\n" \o BlankLineJoined(Tail(xs))

\* label i ranks before label j for the query vector q: nearer, or as near and lower
RanksBefore(F, q, i, j) ==
    \/ L2(F.xb[i + 1], q) < L2(F.xb[j + 1], q)
    \/ L2(F.xb[i + 1], q) = L2(F.xb[j + 1], q) /\ i < j

InRange(G, ix) == SelectSeq(ix, LAMBDA i : i \in 0..(Len(G) - 1))

\* C15: in every reachable state of the globals, the chunks a searching
\* retrieve_context call returns are the texts of the labels of the search result that
\* lie in 0 .. len(guideline_chunks) - 1, in order; a label outside that range, -1
\* included, contributes nothing.
C15_OnlyInRangeLabels ==
    (last.called /\ last.out.branch = "search")
        => LET G   == last.saw.guideline_chunks
               inr == InRange(G, last.out.indices)
               rc  == last.out.retrieved_chunks
           IN  /\ Len(rc) = Len(inr)
               /\ \A r \in 1..Len(inr) : rc[r] = G[inr[r] + 1]
               /\ last.out.result = BlankLineJoined(rc)

====
